---- MODULE Spec2Model ----
(***************************************************************************)
(* A model of the type-is library: the predicate library (src/src/typeis.js) *)
(* and its facade (src/src/index.js).  JavaScript values are records; the    *)
(* language primitives the code relies on (typeof, ===, %, property reads,   *)
(* Object.keys, unresolvable identifiers) are operators that compute what    *)
(* ECMAScript computes.  Three specifications drive the library:             *)
(*   Spec        calls of the predicates and of the dispatcher,              *)
(*   ExtendSpec  the prototype-chain walk of isExtendOf, one step per action, *)
(*   AliasSpec   the alias table `is`, its callers' writes and calls.         *)
(***************************************************************************)
EXTENDS Integers, Sequences, FiniteSets, TLC

VARIABLES
  op,        \* name of the library function of the current call ("" when idle)
  args,      \* the arguments of the current call, a sequence of values
  ret,       \* its completion: [status: "idle" | "return" | "throw", val]
  globals,   \* the global-object bindings of the identifiers `value`, `iterator`
  is,        \* the alias table: key -> name of the function stored under it
  aliasKey,  \* the key a call went through ("" for a direct call)
  writes,    \* number of writes callers made to the alias table
  parent,    \* heap: [[Prototype]] link of every prototype object (0 is null)
  protoOf,   \* heap: the `prototype` property of every constructor (0: none)
  subClass, superClass,  \* arguments of the running isExtendOf call
  current,   \* isExtendOf's local variable
  pc,        \* isExtendOf's position: "idle" | "loop" | "done"
  steps,     \* number of Object.getPrototypeOf calls of the running call
  result     \* the value isExtendOf returned

vars == <<op, args, ret, globals, is, aliasKey, writes,
          parent, protoOf, subClass, superClass, current, pc, steps, result>>

callVars == <<op, args, ret, aliasKey>>
extendVars == <<parent, protoOf, subClass, superClass, current, pc, steps, result>>

----------------------------------------------------------------------------
(* Bounds of the model *)

MaxNum == 3      \* numerators of the finite numbers
MaxDen == 2      \* denominators of the finite numbers
MaxRefs == 2     \* distinct references per object shape
MaxProtos == 3   \* prototype objects on the heap
MaxCtors == 2    \* constructors on the heap
MaxWrites == 2   \* writes callers make to the alias table

----------------------------------------------------------------------------
(* JavaScript values *)

Blank ==
  [t |-> "undefined", b |-> FALSE, cls |-> "na", neg |-> FALSE, num |-> 0,
   den |-> 1, s |-> "", id |-> 0, callable |-> FALSE, arr |-> FALSE,
   ctorFn |-> FALSE, ctor |-> "", len |-> -1, keys |-> 0, iter |-> FALSE]

Undefined == Blank
Null == [Blank EXCEPT !.t = "null"]
MkBool(b) == [Blank EXCEPT !.t = "boolean", !.b = b]
MkStr(s) == [Blank EXCEPT !.t = "string", !.s = s]
MkSym(id) == [Blank EXCEPT !.t = "symbol", !.id = id]
MkBigInt(n) == [Blank EXCEPT !.t = "bigint", !.num = n]
\* a finite number (-1)^neg * n/d; n = 0 with neg is the negative zero
MkFin(neg, n, d) ==
  [Blank EXCEPT !.t = "number", !.cls = "fin", !.neg = neg, !.num = n, !.den = d]
MkInt(n) == MkFin(FALSE, n, 1)
NaN == [Blank EXCEPT !.t = "number", !.cls = "nan"]
Infinity(neg) == [Blank EXCEPT !.t = "number", !.cls = "inf", !.neg = neg]
\* an object: its identity and the observable shape the library reads
MkObj(id, shape) ==
  [Blank EXCEPT !.t = "object", !.id = id, !.callable = shape.callable,
                !.arr = shape.arr, !.ctorFn = shape.ctorFn, !.ctor = shape.ctor,
                !.len = shape.len, !.keys = shape.keys, !.iter = shape.iter]

Shape(callable, arr, ctorFn, ctor, len, keys, iter) ==
  [callable |-> callable, arr |-> arr, ctorFn |-> ctorFn, ctor |-> ctor,
   len |-> len, keys |-> keys, iter |-> iter]

RECURSIVE GCD(_, _)
GCD(a, b) == IF b = 0 THEN a ELSE GCD(b, a % b)

Numbers ==
  {MkFin(neg, n, d) : neg \in BOOLEAN,
                      <<n, d>> \in {q \in (0..MaxNum) \X (1..MaxDen) : GCD(q[1], q[2]) = 1}}
  \cup {NaN, Infinity(FALSE), Infinity(TRUE)}

Strings == {MkStr(""), MkStr("a"), MkStr("ab")}

\* the well-known symbol Symbol.iterator is the symbol 1
SymbolIterator == MkSym(1)
Symbols == {SymbolIterator, MkSym(2)}

Shapes ==
  { Shape(FALSE, FALSE, TRUE, "Object", -1, 0, FALSE),    \* {}
    Shape(FALSE, FALSE, TRUE, "Object", -1, 1, FALSE),    \* {a: 1}
    Shape(FALSE, FALSE, TRUE, "Object", 0, 1, FALSE),     \* {length: 0}
    Shape(FALSE, FALSE, FALSE, "", -1, 0, FALSE),         \* Object.create(null)
    Shape(FALSE, TRUE, TRUE, "Array", 0, 0, TRUE),        \* []
    Shape(FALSE, TRUE, TRUE, "Array", 2, 2, TRUE),        \* [1, 2]
    Shape(FALSE, TRUE, TRUE, "Array", 2, 0, TRUE),        \* new Array(2)
    Shape(TRUE, FALSE, TRUE, "Function", 0, 0, FALSE),    \* function () {}
    Shape(TRUE, FALSE, TRUE, "Function", 1, 0, FALSE),    \* function (a) {}
    Shape(TRUE, FALSE, TRUE, "Map", 1, 1, FALSE),         \* f.constructor = Map
    Shape(FALSE, FALSE, TRUE, "Map", -1, 0, TRUE),        \* new Map()
    Shape(FALSE, FALSE, TRUE, "Set", -1, 0, TRUE),        \* new Set()
    Shape(FALSE, FALSE, TRUE, "Promise", -1, 0, FALSE) }  \* Promise.resolve()

Objects == {MkObj(id, sh) : id \in 1..MaxRefs, sh \in Shapes}

Values ==
  {Undefined, Null, MkBool(TRUE), MkBool(FALSE), MkBigInt(0), MkBigInt(1)}
  \cup Numbers \cup Strings \cup Symbols \cup Objects

----------------------------------------------------------------------------
(* Language primitives *)

\* typeof value
TypeOf(v) ==
  CASE v.t = "null" -> "object"
    [] v.t = "object" -> IF v.callable THEN "function" ELSE "object"
    [] OTHER -> v.t

\* a === b
StrictEquals(a, b) ==
  IF a.t # b.t THEN FALSE
  ELSE CASE a.t = "number" ->
              IF a.cls = "nan" \/ b.cls = "nan" THEN FALSE
              ELSE IF a.cls = "fin" /\ b.cls = "fin" /\ a.num = 0 /\ b.num = 0 THEN TRUE
              ELSE a = b
         [] a.t \in {"object", "symbol"} -> a.id = b.id
         [] OTHER -> a = b

\* 1 / a, for a number a
Reciprocal(a) ==
  CASE a.cls = "nan" -> NaN
    [] a.cls = "inf" -> MkFin(a.neg, 0, 1)
    [] a.num = 0 -> Infinity(a.neg)
    [] OTHER -> MkFin(a.neg, a.den, a.num)

\* (value % 1) === 0, for a number
RemainderOneIsZero(v) == v.cls = "fin" /\ v.num % v.den = 0

\* !!value
ToBoolean(v) ==
  CASE v.t \in {"undefined", "null"} -> FALSE
    [] v.t = "boolean" -> v.b
    [] v.t = "number" -> ~(v.cls = "nan" \/ (v.cls = "fin" /\ v.num = 0))
    [] v.t = "string" -> v.s # ""
    [] v.t = "bigint" -> v.num # 0
    [] OTHER -> TRUE

\* the global isFinite, applied to a number
isFinite(v) == v.t = "number" /\ v.cls = "fin"

\* value.length, for a defined value
GetLength(v) ==
  CASE v.t = "string" -> MkInt(Len(v.s))
    [] v.t = "object" /\ v.len >= 0 -> MkInt(v.len)
    [] OTHER -> Undefined

\* Object.keys(value).length, for a defined value
OwnKeysLength(v) ==
  CASE v.t = "string" -> MkInt(Len(v.s))
    [] v.t = "object" -> MkInt(v.keys)
    [] OTHER -> MkInt(0)

\* a function object standing for a method found on a value
SomeMethod == MkObj(0, Shape(TRUE, FALSE, TRUE, "Function", 0, 0, FALSE))

\* value.constructor, for a defined value
GetConstructor(v) ==
  IF v.t = "object" THEN (IF v.ctorFn THEN SomeMethod ELSE Undefined) ELSE SomeMethod

\* value.constructor.name
ConstructorNameOf(v) ==
  CASE v.t = "object" -> MkStr(v.ctor)
    [] v.t = "boolean" -> MkStr("Boolean")
    [] v.t = "number" -> MkStr("Number")
    [] v.t = "string" -> MkStr("String")
    [] v.t = "symbol" -> MkStr("Symbol")
    [] OTHER -> MkStr("BigInt")

\* value[key], for a defined value and a key
GetProperty(v, key) ==
  CASE key = SymbolIterator ->
         IF v.t = "string" \/ (v.t = "object" /\ v.iter) THEN SomeMethod ELSE Undefined
    [] key = MkStr("length") -> GetLength(v)
    [] key = MkStr("constructor") -> GetConstructor(v)
    [] OTHER -> Undefined

\* completions of a call
Idle == [status |-> "idle", val |-> Undefined]
Return(v) == [status |-> "return", val |-> v]
Throw(name) == [status |-> "throw", val |-> MkStr(name)]

\* the binding of an identifier that no scope of the module declares
Unbound == [bound |-> FALSE, val |-> Undefined]
Bound(v) == [bound |-> TRUE, val |-> v]

----------------------------------------------------------------------------
(* The predicate library, src/src/typeis.js *)

isDefined(value) == ~StrictEquals(value, Null) /\ ~StrictEquals(value, Undefined)

isEmpty(value) == StrictEquals(value, Undefined) \/ StrictEquals(value, Null)

isNull(value) == StrictEquals(value, Null)

isUndefined(value) == StrictEquals(value, Undefined)

isNumber(value) == TypeOf(value) = "number" /\ isFinite(value)

isString(value) == TypeOf(value) = "string"

isBoolean(value) == StrictEquals(value, MkBool(ToBoolean(value)))

isFunction(value) == TypeOf(value) = "function"

\* isObject without its null test (a seeded fault)
isObject_typeofOnly(value) == TypeOf(value) = "object"

isObject(value) == ~StrictEquals(value, Null) /\ TypeOf(value) = "object"

isSymbol(value) == TypeOf(value) = "symbol"

isBigInt(value) == TypeOf(value) = "bigint"

\* Array.isArray
isArray(value) == value.t = "object" /\ value.arr

isInt(value) == isNumber(value) /\ RemainderOneIsZero(value)

\* value >= 0 holds of both zeros
isUInt(value) == isInt(value) /\ (~value.neg \/ value.num = 0)

isArrayLike(value) == isDefined(value) /\ isUInt(GetLength(value))

getConstructorName(value) ==
  IF isDefined(value) /\ isFunction(GetConstructor(value))
  THEN ConstructorNameOf(value)
  ELSE Null

isPromise(value) ==
  isFunction(value) /\ StrictEquals(getConstructorName(value), MkStr("Promise"))

isMap(value) ==
  isFunction(value) /\ StrictEquals(getConstructorName(value), MkStr("Map"))

isSet(value) ==
  isFunction(value) /\ StrictEquals(getConstructorName(value), MkStr("Set"))

isZeroValue(value) ==
  \/ isEmpty(value)
  \/ StrictEquals(value, MkInt(0))
  \/ StrictEquals(GetLength(value), MkInt(0))
  \/ StrictEquals(OwnKeysLength(value), MkInt(0))

isEquals(a, b) ==
  IF isNumber(a)
  THEN IF StrictEquals(a, b)
       THEN StrictEquals(Reciprocal(a), Reciprocal(b))
       ELSE ~StrictEquals(a, a) /\ ~StrictEquals(b, b)
  ELSE StrictEquals(a, b)

\* isFloat names its parameter `params` and reads the identifier `value`, which
\* no scope of the module declares: the read resolves on the global object, and
\* raises ReferenceError when the global object has no such property.
isFloat(params) ==
  IF ~globals["value"].bound
  THEN Throw("ReferenceError")
  ELSE LET value == globals["value"].val
       IN  Return(MkBool(isNumber(value) /\ ~RemainderOneIsZero(value)))

\* isIterable reads the identifier `iterator`, which no scope of the module
\* declares, as the property key.
isIterable(value) ==
  IF ~isDefined(value)
  THEN Return(MkBool(FALSE))
  ELSE IF ~globals["iterator"].bound
       THEN Throw("ReferenceError")
       ELSE Return(MkBool(isFunction(GetProperty(value, globals["iterator"].val))))

----------------------------------------------------------------------------
(* The facade, src/src/index.js *)

\* typeis without its null test (a seeded fault)
typeis_arrayFirst(value) ==
  IF isArray(value) THEN "array" ELSE TypeOf(value)

typeis(value) ==
  IF isNull(value) THEN "null"
  ELSE IF isArray(value) THEN "array"
  ELSE TypeOf(value)

\* the predicates of one argument that always return
SimplePredicates ==
  {"isArray", "isArrayLike", "isBigInt", "isBoolean", "isDefined", "isEmpty",
   "isFunction", "isNull", "isNumber", "isObject", "isString", "isSymbol",
   "isUndefined"}

Verdict(f, v) ==
  CASE f = "isArray" -> isArray(v)
    [] f = "isArrayLike" -> isArrayLike(v)
    [] f = "isBigInt" -> isBigInt(v)
    [] f = "isBoolean" -> isBoolean(v)
    [] f = "isDefined" -> isDefined(v)
    [] f = "isEmpty" -> isEmpty(v)
    [] f = "isFunction" -> isFunction(v)
    [] f = "isNull" -> isNull(v)
    [] f = "isNumber" -> isNumber(v)
    [] f = "isObject" -> isObject(v)
    [] f = "isString" -> isString(v)
    [] f = "isSymbol" -> isSymbol(v)
    [] f = "isUndefined" -> isUndefined(v)

----------------------------------------------------------------------------
(* The alias table `is`, src/src/index.js *)

AliasKeys ==
  {"arr", "array", "arrayLike", "bigint", "boolean", "defined", "empty", "func",
   "iterable", "null", "num", "obj", "str", "symbol", "undefined", "toString"}

\* Object.assign(Object.create(null), {...}): the entries as constructed
AliasTable ==
  [k \in AliasKeys |->
     CASE k = "arr" -> "isArray"
       [] k = "array" -> "isArray"
       [] k = "arrayLike" -> "isArrayLike"
       [] k = "bigint" -> "isBigInt"
       [] k = "boolean" -> "isBoolean"
       [] k = "defined" -> "isDefined"
       [] k = "empty" -> "isEmpty"
       [] k = "func" -> "isFunction"
       [] k = "iterable" -> "isIterable"
       [] k = "null" -> "isNull"
       [] k = "num" -> "isNumber"
       [] k = "obj" -> "isObject"
       [] k = "str" -> "isString"
       [] k = "symbol" -> "isSymbol"
       [] k = "undefined" -> "isUndefined"
       [] k = "toString" -> "Object.prototype.toString"]

\* a key the table does not have, and the marker of a missing entry
ExtraKeys == {"extra"}
Absent == "<absent>"

\* the call f(v) of the function named f, as a method of the table
Invoke(f, v) ==
  CASE f \in SimplePredicates -> Return(MkBool(Verdict(f, v)))
    [] f = "isIterable" -> isIterable(v)
    [] f = "Object.prototype.toString" -> Return(MkStr("[object Object]"))
    [] OTHER -> Throw("TypeError")

----------------------------------------------------------------------------
(* The heap isExtendOf walks *)

Protos == 1..MaxProtos
Ctors == 1..MaxCtors

\* the [[Prototype]] links of a program's prototype objects: 0 is null; chains
\* are acyclic, the objects numbered so that a link leads to a higher number
Heaps == {p \in [Protos -> 0..MaxProtos] : \A o \in Protos : p[o] = 0 \/ p[o] > o}

\* Object.getPrototypeOf(current)
GetPrototypeOf(o) == parent[o]

\* a seeded fault: `while (Object.getPrototypeOf(current))`
LoopTest_lookahead(cur) == cur # 0 /\ parent[cur] # 0

\* the loop test `while (current)`
LoopTest(cur) == cur # 0

\* a seeded fault: the test applied to the object above current
IsSuperPrototype_strict(cur, sup) == parent[cur] # 0 /\ parent[cur] = protoOf[sup]

\* the test `current === superClass.prototype`
IsSuperPrototype(cur, sup) == cur = protoOf[sup]

----------------------------------------------------------------------------
(* Initial states *)

GlobalNames == {"value", "iterator"}

\* what a host program may have stored on the global object under those names
GlobalCandidates(n) ==
  IF n = "value" THEN {MkFin(FALSE, 3, 2), MkStr("a")}
  ELSE {SymbolIterator, MkStr("length")}

InitLibrary ==
  /\ op = ""
  /\ args = <<>>
  /\ ret = Idle
  /\ aliasKey = ""
  /\ globals = [n \in GlobalNames |-> Unbound]
  /\ is = [k \in AliasKeys \cup ExtraKeys |-> IF k \in AliasKeys THEN AliasTable[k] ELSE Absent]
  /\ writes = 0

InitCall ==
  /\ subClass = 0
  /\ superClass = 0
  /\ current = 0
  /\ pc = "idle"
  /\ steps = 0
  /\ result = FALSE

\* a program that declares no constructor
Init ==
  /\ InitLibrary
  /\ InitCall
  /\ parent = [o \in Protos |-> 0]
  /\ protoOf = [c \in Ctors |-> 0]

\* a program with any class hierarchy over the constructors and prototypes
ExtendInit ==
  /\ InitLibrary
  /\ InitCall
  /\ parent \in Heaps
  /\ protoOf \in [Ctors -> 0..MaxProtos]

----------------------------------------------------------------------------
(* Calls of the predicates and of the dispatcher *)

\* the completion r of the call f(a) reaches the caller
Complete(f, a, r) ==
  /\ op' = f
  /\ args' = a
  /\ ret' = r
  /\ aliasKey' = ""
  /\ UNCHANGED <<globals, is, writes, extendVars>>

Call_typeis ==
  /\ ret.status = "idle"
  /\ \E v \in Values : Complete("typeis", <<v>>, Return(MkStr(typeis(v))))

Call_isEquals ==
  /\ ret.status = "idle"
  /\ \E a \in Values, b \in Values :
       Complete("isEquals", <<a, b>>, Return(MkBool(isEquals(a, b))))

Call_isFloat ==
  /\ ret.status = "idle"
  /\ \E v \in Values : Complete("isFloat", <<v>>, isFloat(v))

Call_isIterable ==
  /\ ret.status = "idle"
  /\ \E v \in Values : Complete("isIterable", <<v>>, isIterable(v))

Call_isPromise ==
  /\ ret.status = "idle"
  /\ \E v \in Values : Complete("isPromise", <<v>>, Return(MkBool(isPromise(v))))

Call_isMap ==
  /\ ret.status = "idle"
  /\ \E v \in Values : Complete("isMap", <<v>>, Return(MkBool(isMap(v))))

Call_isSet ==
  /\ ret.status = "idle"
  /\ \E v \in Values : Complete("isSet", <<v>>, Return(MkBool(isSet(v))))

Call_isZeroValue ==
  /\ ret.status = "idle"
  /\ \E v \in Values : Complete("isZeroValue", <<v>>, Return(MkBool(isZeroValue(v))))

Call_predicate ==
  /\ ret.status = "idle"
  /\ \E f \in SimplePredicates, v \in Values :
       Complete(f, <<v>>, Return(MkBool(Verdict(f, v))))

\* the caller takes the completion; the library is ready for the next call
Consume ==
  /\ ret.status # "idle"
  /\ op' = ""
  /\ args' = <<>>
  /\ ret' = Idle
  /\ aliasKey' = ""
  /\ UNCHANGED <<globals, is, writes, extendVars>>

\* the host program defines a global variable named `value` or `iterator`
DefineGlobal ==
  /\ ret.status = "idle"
  /\ \E n \in GlobalNames : \E v \in GlobalCandidates(n) :
       globals' = [globals EXCEPT ![n] = Bound(v)]
  /\ UNCHANGED <<callVars, is, writes, extendVars>>

Next ==
  \/ Call_typeis
  \/ Call_isEquals
  \/ Call_isFloat
  \/ Call_isIterable
  \/ Call_isPromise
  \/ Call_isMap
  \/ Call_isSet
  \/ Call_isZeroValue
  \/ Call_predicate
  \/ Consume
  \/ DefineGlobal

Spec == Init /\ [][Next]_vars

----------------------------------------------------------------------------
(* isExtendOf, one loop iteration per step *)

\* let current = subClass.prototype
isExtendOf_Enter ==
  /\ pc = "idle"
  /\ \E sub \in Ctors, sup \in Ctors :
       /\ subClass' = sub
       /\ superClass' = sup
       /\ current' = protoOf[sub]
  /\ pc' = "loop"
  /\ steps' = 0
  /\ result' = FALSE
  /\ UNCHANGED <<callVars, globals, is, writes, parent, protoOf>>

\* one evaluation of the loop test and, when it holds, of the loop body
isExtendOf_Step ==
  /\ pc = "loop"
  /\ IF ~LoopTest(current)
     THEN /\ pc' = "done"
          /\ result' = FALSE
          /\ UNCHANGED <<current, steps>>
     ELSE IF IsSuperPrototype(current, superClass)
          THEN /\ pc' = "done"
               /\ result' = TRUE
               /\ UNCHANGED <<current, steps>>
          ELSE /\ current' = GetPrototypeOf(current)
               /\ steps' = steps + 1
               /\ UNCHANGED <<pc, result>>
  /\ UNCHANGED <<callVars, globals, is, writes, parent, protoOf, subClass, superClass>>

\* the caller takes the result
isExtendOf_Exit ==
  /\ pc = "done"
  /\ pc' = "idle"
  /\ subClass' = 0
  /\ superClass' = 0
  /\ current' = 0
  /\ steps' = 0
  /\ result' = FALSE
  /\ UNCHANGED <<callVars, globals, is, writes, parent, protoOf>>

ExtendNext ==
  \/ isExtendOf_Enter
  \/ isExtendOf_Step
  \/ isExtendOf_Exit

ExtendSpec == ExtendInit /\ [][ExtendNext]_vars

\* the loop runs synchronously: a call in its loop takes its next step
ExtendFairSpec == ExtendSpec /\ WF_vars(isExtendOf_Step)

----------------------------------------------------------------------------
(* Callers of the alias table *)

\* the values callers pass through the table
AliasSamples == {Undefined, Null, MkInt(1), MkStr("a"), MkBool(TRUE)}

\* what callers store in the table: another predicate, or a value that is
\* no function
WriteCandidates == {"isString", "<not a function>"}

\* is[k] = f: the table is an ordinary extensible object with writable entries
AliasWrite ==
  /\ ret.status = "idle"
  /\ writes < MaxWrites
  /\ \E k \in AliasKeys \cup ExtraKeys, f \in WriteCandidates :
       is' = [is EXCEPT ![k] = f]
  /\ writes' = writes + 1
  /\ UNCHANGED <<callVars, globals, extendVars>>

\* delete is[k]: the entries are configurable
AliasDelete ==
  /\ ret.status = "idle"
  /\ writes < MaxWrites
  /\ \E k \in AliasKeys : is' = [is EXCEPT ![k] = Absent]
  /\ writes' = writes + 1
  /\ UNCHANGED <<callVars, globals, extendVars>>

\* is[k](v)
AliasCall ==
  /\ ret.status = "idle"
  /\ \E k \in AliasKeys \cup ExtraKeys, v \in AliasSamples :
       /\ op' = is[k]
       /\ args' = <<v>>
       /\ ret' = Invoke(is[k], v)
       /\ aliasKey' = k
  /\ UNCHANGED <<globals, is, writes, extendVars>>

AliasNext ==
  \/ AliasWrite
  \/ AliasDelete
  \/ AliasCall
  \/ Consume

AliasSpec == Init /\ [][AliasNext]_vars

----------------------------------------------------------------------------
(* Properties of the dispatcher *)

TypeTags ==
  {"null", "array", "number", "string", "boolean", "function", "object",
   "bigint", "symbol", "undefined"}

\* a completed direct call of the library function f
Called(f) == op = f /\ aliasKey = "" /\ ret.status # "idle"

\* C1: typeis(v) returns "null" for null, otherwise "array" for an array,
\* otherwise the typeof tag of v; the tag is one of the ten tags, and null and
\* arrays are never tagged "object".
C1_typeisRule ==
  Called("typeis") =>
    LET v == args[1]
        isNullValue == v.t = "null"
        isArrayValue == v.t = "object" /\ v.arr
    IN  /\ ret.status = "return"
        /\ ret.val = MkStr(IF isNullValue THEN "null"
                           ELSE IF isArrayValue THEN "array"
                           ELSE TypeOf(v))
        /\ ret.val.s \in TypeTags
        /\ (isNullValue \/ isArrayValue) => ret.val.s # "object"

C1_witness ==
  /\ Called("typeis")
  /\ args[1] = Null
  /\ ret = Return(MkStr("null"))

\* C10: the dispatcher agrees with the predicates: "null" iff isNull, "array"
\* iff isArray, "object" iff isObject and not isArray, "undefined" iff
\* isUndefined, isNumber implies "number", and a value tagged "number" that
\* isNumber rejects is NaN or an infinity, and conversely.
C10_dispatcherAgrees ==
  (Called("typeis") /\ ret.status = "return") =>
    LET v == args[1]
        tag == ret.val.s
    IN  /\ (tag = "null") <=> isNull(v)
        /\ (tag = "array") <=> isArray(v)
        /\ (tag = "object") <=> (isObject(v) /\ ~isArray(v))
        /\ (tag = "undefined") <=> isUndefined(v)
        /\ isNumber(v) => tag = "number"
        /\ (tag = "number" /\ ~isNumber(v)) <=> (v \in {NaN, Infinity(FALSE), Infinity(TRUE)})

C10_witness ==
  /\ Called("typeis")
  /\ args[1] = NaN
  /\ ret = Return(MkStr("number"))
  /\ ~isNumber(args[1])

----------------------------------------------------------------------------
(* Properties of the predicates, as the specification states them *)

IsZeroNumber(v) == v.t = "number" /\ v.cls = "fin" /\ v.num = 0

\* C2: isEquals(NaN, NaN) is true, isEquals(0, -0) and isEquals(-0, 0) are
\* false, isEquals(x, x) is true of a finite x, isEquals(x, y) is false of
\* distinct numbers, and of an a that is no number the result is a === b.
C2_isEqualsPolicy ==
  Called("isEquals") =>
    LET a == args[1]
        b == args[2]
        r == ret.val
    IN  /\ ret.status = "return"
        /\ (a = NaN /\ b = NaN) => r = MkBool(TRUE)
        /\ (IsZeroNumber(a) /\ IsZeroNumber(b) /\ a.neg # b.neg) => r = MkBool(FALSE)
        /\ (a.t = "number" /\ a.cls = "fin" /\ a = b) => r = MkBool(TRUE)
        /\ (a.t = "number" /\ b.t = "number" /\ a # b) => r = MkBool(FALSE)
        /\ a.t # "number" => r = MkBool(StrictEquals(a, b))

\* C3: isFloat(v) returns, and returns true exactly when v is a finite number
\* with v % 1 not 0, whatever any other variable holds.
C3_isFloatOfArgument ==
  Called("isFloat") =>
    LET v == args[1]
    IN  ret = Return(MkBool(v.t = "number" /\ v.cls = "fin" /\ v.num % v.den # 0))

\* C4: isIterable(v) returns, false of null and undefined and otherwise true
\* exactly when v[Symbol.iterator] is a function.
C4_isIterableTotal ==
  Called("isIterable") =>
    LET v == args[1]
    IN  ret = Return(MkBool(/\ v.t \notin {"null", "undefined"}
                            /\ TypeOf(GetProperty(v, SymbolIterator)) = "function"))

\* C5: isPromise, isMap and isSet return true exactly of the values whose
\* constructor name is Promise, Map and Set.
C5_classifiesTheValue ==
  \A K \in {"Promise", "Map", "Set"} :
    (\/ (K = "Promise" /\ Called("isPromise"))
     \/ (K = "Map" /\ Called("isMap"))
     \/ (K = "Set" /\ Called("isSet"))) =>
       LET v == args[1]
       IN  ret = Return(MkBool(v.t = "object" /\ v.ctorFn /\ v.ctor = K))

\* C6: isZeroValue(v) is true exactly of null, undefined, a numeric zero, an
\* array or string of length 0 and a plain object without own enumerable keys.
C6_isZeroValueExactly ==
  Called("isZeroValue") =>
    LET v == args[1]
    IN  ret = Return(MkBool(
          \/ v.t \in {"null", "undefined"}
          \/ IsZeroNumber(v)
          \/ (v.t = "string" /\ Len(v.s) = 0)
          \/ (v.t = "object" /\ v.arr /\ v.len = 0)
          \/ (v.t = "object" /\ ~v.arr /\ ~v.callable /\ v.keys = 0)))

----------------------------------------------------------------------------
(* Properties of isExtendOf *)

\* the objects on the prototype chain that starts at o
RECURSIVE ChainFrom(_)
ChainFrom(o) == IF o = 0 THEN {} ELSE {o} \cup ChainFrom(parent[o])

\* the walk so far: the links followed never outnumber the objects of the
\* chain of Sub.prototype, and the value returned says whether Base.prototype
\* is one of them
WalkIsBoundedAndExact ==
  /\ pc \in {"loop", "done"} => steps <= Cardinality(ChainFrom(protoOf[subClass]))
  /\ pc = "done" => result = (protoOf[superClass] \in ChainFrom(protoOf[subClass]))

\* C7: every call of isExtendOf on constructors with acyclic prototype chains
\* terminates, having followed the prototype link at most as often as the
\* chain of Sub.prototype is deep, and returns true exactly when Base.prototype
\* is an object of that chain.
C7_walkTerminatesBoundedAndExact ==
  /\ []WalkIsBoundedAndExact
  /\ (pc = "loop") ~> (pc = "done")

C7_witness ==
  /\ pc = "done"
  /\ result = TRUE
  /\ steps = 2
  /\ subClass # superClass

\* C8 as stated: isExtendOf(C, C) is false of a constructor C that has a
\* prototype object.
C8_strict ==
  (pc = "done" /\ subClass = superClass /\ protoOf[subClass] # 0) => result = FALSE

\* C8 as amended: isExtendOf(C, C) is true of a constructor C that has a
\* prototype object, without following any prototype link, and false of a
\* constructor that has none.
C8_reflexive ==
  (pc = "done" /\ subClass = superClass) =>
    /\ result = (protoOf[subClass] # 0)
    /\ steps = 0

C8_witness ==
  /\ pc = "done"
  /\ subClass = superClass
  /\ protoOf[subClass] # 0
  /\ result = TRUE

----------------------------------------------------------------------------
(* Properties of the alias table *)

\* C9: whatever callers do, every key of the table maps to the function it was
\* constructed with, no key is added, and a call through a key completes as a
\* call of that function.
C9_aliasTableImmutable ==
  /\ \A k \in AliasKeys : is[k] = AliasTable[k]
  /\ \A k \in ExtraKeys : is[k] = Absent
  /\ (aliasKey \in AliasKeys /\ ret.status # "idle") =>
       ret = Invoke(AliasTable[aliasKey], args[1])

====
